---------------------------- MODULE Spec2Model ----------------------------
(***************************************************************************)
(* A model of the DASS born-digital accessioning tool                      *)
(* (dass_born_digital_accessioning_tool.py, send_notifications.py).        *)
(*                                                                         *)
(* The program is one sequential procedure, main(): it logs in, sweeps     *)
(* the spreadsheet files of the network drive, runs every row through      *)
(* resolve container -> build payload -> POST -> POST events -> write,     *)
(* and in its finally clause sorts the files and sends a notification.     *)
(* The variable pc is main's position; every action is one group of        *)
(* statements of main, with the functions it calls written as operators.   *)
(*                                                                         *)
(* The remote API (ArchivesSpace) and the spreadsheets are the inputs:     *)
(* every response and every row field is drawn from a small set when the   *)
(* code reads it.  Python's None is the string "None" (which is also how   *)
(* an f-string prints it), an unbound local is tagged as such.             *)
(* Strings that the code takes apart (dates) are sequences of characters,  *)
(* URIs that the code puts together are sequences of path segments.        *)
(*                                                                         *)
(* Spec is the sweep.  SpecDates and SpecUpdate apply check_dates and      *)
(* update_archival_object on their own, to arguments of more shapes than   *)
(* the rows of the sweep give them.                                        *)
(***************************************************************************)
EXTENDS Integers, Sequences, FiniteSets, TLC

\* ------------------------------------------------------------------ bounds

\* Files in the listing of the network drive.
MaxFiles == 2
\* Data rows read in one run, over all its spreadsheets.
MaxRows == 3
\* Instances of a record that update_archival_object is applied to on its own.
MaxInstances == 2

\* ------------------------------------------------------------ small helpers

Range(s) == {s[i] : i \in DOMAIN s}

Last(s) == s[Len(s)]

Front(s) == SubSeq(s, 1, Len(s) - 1)

SeqsUpTo(S, n) == UNION {[1..k -> S] : k \in 0..n}

None == "None"

\* ------------------------------------------------------- the remote records

\* The repository the spreadsheets' repository code resolves to.
RepoId == "2"

\* Archival objects the rows' parent-record references name ("" : the
\* reference has nothing after its last underscore).
RecordIds == {"7"}

\* The identifiers the API gives to newly created archival objects, one
\* after the other.
NewIds == <<"101", "102", "103", "104", "105", "106", "107", "108", "109", "110", "111", "112",
           "113", "114", "115", "116", "117", "118", "119", "120">>

\* The top containers of the repository, and the one the records of the
\* sweep are linked to.
TopContainers == {"/repositories/2/top_containers/1", "/repositories/2/top_containers/2"}

LinkedContainers == {"/repositories/2/top_containers/1"}

Indicator(uri) == IF uri = "/repositories/2/top_containers/1" THEN "Box 1" ELSE "Box 2"

\* What a row's Top Container column holds.
RowIndicators == {"", "Box 1", "Box 2"}

AgentUri == "/agents/people/5"

UserAgentUri == "/agents/people/1"

DigitalObjectInstance == [instance_type |-> "digital_object", ref |-> ""]

\* create_instance: the instance linking a top container.
create_instance(container_uri) == [instance_type |-> "mixed_materials", ref |-> container_uri]

\* The instance lists the API gives for the records of the sweep.
InstanceLists ==
  {<<DigitalObjectInstance>>,
   <<DigitalObjectInstance, create_instance("/repositories/2/top_containers/1")>>}

\* f"/repositories/{repo_id}/archival_objects": a path as its segments
\* between the slashes (the first one is empty: the path starts with "/").
ArchivalObjectsPath(repo_id) == <<"", "repositories", repo_id, "archival_objects">>

\* f"/repositories/{repo_id}/archival_objects/{ao_id}", ao_id itself a string
\* given as its segments: an identifier is one segment, a URI several.
ArchivalObjectPath(repo_id, ao_id) == ArchivalObjectsPath(repo_id) \o ao_id

\* The API has no repository "None": a request under /repositories/None
\* (the repository was not resolved) is answered with an error.
Served(repo_id) == repo_id # None

\* get_uris: the top container references of the non-digital instances.
RECURSIVE get_uris(_)
get_uris(instances) ==
  IF instances = <<>> THEN <<>>
  ELSE LET rest == get_uris(Tail(instances))
       IN  IF Head(instances).instance_type # "digital_object"
           THEN <<Head(instances).ref>> \o rest
           ELSE rest


\* ------------------------------------------------------ container resolver

\* What a call gives: a value (tag "return"), Python's None (tag "None"), or
\* an exception that leaves the function (tag "raise").
Return(v) == [tag |-> "return", val |-> v, exc |-> ""]

ReturnNone == [tag |-> "None", val |-> <<>>, exc |-> ""]

Raise(e) == [tag |-> "raise", val |-> <<>>, exc |-> e]

\* The API's answers to one container lookup: the archival object, its first
\* ancestor (ok: the GET gave status 200), and the top containers whose GET
\* fails.
RecordAnswers == [ok : {TRUE}, instances : InstanceLists] \cup {[ok |-> FALSE, instances |-> <<>>]}

ContainerResponses ==
  [rec : RecordAnswers, anc : RecordAnswers, failing : SUBSET LinkedContainers]

\* The loop of generate_container_list.  Its except clause logs record_json,
\* which is unbound until the first GET of the loop has succeeded.
RECURSIVE container_loop(_, _, _, _)
container_loop(uris, failing, store, bound) ==
  IF uris = <<>> THEN Return(store)
  ELSE IF Head(uris) \in failing
       THEN IF bound THEN container_loop(Tail(uris), failing, store, bound)
            ELSE Raise("UnboundLocalError")
       ELSE container_loop(Tail(uris), failing,
                           Append(store, <<Head(uris), Indicator(Head(uris))>>), TRUE)

generate_container_list(instances, failing) ==
  IF get_uris(instances) # <<>>
  THEN container_loop(get_uris(instances), failing, <<>>, FALSE)
  ELSE Raise("RecordNotFoundError")

get_instance_data(instances, failing) ==
  IF get_uris(instances) # <<>>
  THEN LET r == generate_container_list(instances, failing)
       IN  IF r.tag = "raise" /\ r.exc = "RecordNotFoundError" THEN ReturnNone ELSE r
  ELSE Raise("RecordNotFoundError")

\* get_containers: the object's containers, else its first ancestor's; the
\* API errors and the not-found errors are logged and None is returned.
get_containers(resp) ==
  IF ~resp.rec.ok THEN ReturnNone
  ELSE LET own == get_instance_data(resp.rec.instances, resp.failing)
       IN  IF ~(own.tag = "raise" /\ own.exc = "RecordNotFoundError") THEN own
           ELSE IF ~resp.anc.ok THEN ReturnNone
                ELSE LET up == get_instance_data(resp.anc.instances, resp.failing)
                     IN  IF up.tag = "raise" /\ up.exc = "RecordNotFoundError"
                         THEN ReturnNone
                         ELSE up

\* match_containers: the URI of the first entry with the indicator.
\* Iterating None (a lookup that failed) is a TypeError.
RECURSIVE match_loop(_, _)
match_loop(list, container_number) ==
  IF list = <<>> THEN Raise("RecordNotFoundError")
  ELSE IF Head(list)[2] = container_number THEN Return(Head(list)[1])
       ELSE match_loop(Tail(list), container_number)

match_containers(container_list, container_number) ==
  IF container_list.tag = "None" THEN Raise("TypeError")
  ELSE match_loop(container_list.list, container_number)

\* get_matched_containers: every exception of the match is logged and
\* swallowed, and the function then returns None.
get_matched_containers(container_list, container_number) ==
  LET r == match_containers(container_list, container_number)
  IN  IF r.tag = "return" THEN r.val ELSE None


\* ------------------------------------------------------------------- dates

\* A date string is the sequence of its characters.
DigitChars == <<"0", "1", "2", "3", "4", "5", "6", "7", "8", "9">>

IsDigit(c) == c \in Range(DigitChars)

DigitVal(c) == (CHOOSE i \in DOMAIN DigitChars : DigitChars[i] = c) - 1

AllDigits(seg) == \A i \in DOMAIN seg : IsDigit(seg[i])

RECURSIVE NumVal(_)
NumVal(seg) == IF seg = <<>> THEN 0 ELSE 10 * NumVal(Front(seg)) + DigitVal(Last(seg))

\* str.split(sep)
RECURSIVE Split(_, _)
Split(s, sep) ==
  IF sep \notin Range(s) THEN <<s>>
  ELSE LET i == CHOOSE k \in DOMAIN s : s[k] = sep /\ \A j \in 1..(k - 1) : s[j] # sep
       IN  <<SubSeq(s, 1, i - 1)>> \o Split(SubSeq(s, i + 1, Len(s)), sep)

\* The directives of strptime, each on the text between two separators (the
\* directives match digits only, so a match never runs over a separator, and
\* text left over after the last one is an error like any other mismatch).
\* -1: no match.
\* %m : 1[0-2]|0[1-9]|[1-9]
MatchMonth(seg) ==
  IF AllDigits(seg) /\ Len(seg) \in {1, 2} /\ NumVal(seg) \in 1..12 THEN NumVal(seg) ELSE -1

\* %d : 3[01]|[12]\d|0[1-9]|[1-9]
MatchDay(seg) ==
  IF AllDigits(seg) /\ Len(seg) \in {1, 2} /\ NumVal(seg) \in 1..31 THEN NumVal(seg) ELSE -1

\* %Y : \d\d\d\d
MatchYear4(seg) ==
  IF AllDigits(seg) /\ Len(seg) = 4 THEN NumVal(seg) ELSE -1

\* %y : \d\d, 69..99 in the 1900s and 00..68 in the 2000s
MatchYear2(seg) ==
  IF AllDigits(seg) /\ Len(seg) = 2
  THEN (IF NumVal(seg) <= 68 THEN 2000 + NumVal(seg) ELSE 1900 + NumVal(seg))
  ELSE -1

IsLeap(y) == (y % 4 = 0 /\ y % 100 # 0) \/ y % 400 = 0

DaysIn(m, y) ==
  IF m = 2 THEN (IF IsLeap(y) THEN 29 ELSE 28)
  ELSE IF m \in {4, 6, 9, 11} THEN 30 ELSE 31

\* The digits of n, zero-padded to width.
RECURSIVE Digits(_, _)
Digits(n, width) ==
  IF width = 0 THEN <<>> ELSE Append(Digits(n \div 10, width - 1), DigitChars[(n % 10) + 1])

\* strftime('%Y-%m-%d').  (The years of the inputs have four digits; no
\* leading zero of a year is at stake.)
strftime(y, m, d) == Digits(y, 4) \o <<"-">> \o Digits(m, 2) \o <<"-">> \o Digits(d, 2)

\* datetime.strptime(date_value, fmt).strftime('%Y-%m-%d') for the formats
\* '%m/%d/%Y', '%m/%d/%y', '%Y/%m/%d' and '%m-%d-%y': fmt is the order of the
\* directives, sep the separator.  ValueError when the text does not match
\* the format or names no day of the calendar.
strptime(date_value, fmt, sep) ==
  LET segs == Split(date_value, sep)
  IN  IF Len(segs) # 3 THEN Raise("ValueError")
      ELSE LET y == IF fmt = "mdY" THEN MatchYear4(segs[3])
                    ELSE IF fmt = "mdy" THEN MatchYear2(segs[3])
                    ELSE MatchYear4(segs[1])
               m == IF fmt = "Ymd" THEN MatchMonth(segs[2]) ELSE MatchMonth(segs[1])
               d == IF fmt = "Ymd" THEN MatchDay(segs[3]) ELSE MatchDay(segs[2])
           IN  IF y < 1 \/ m < 1 \/ d < 1 THEN Raise("ValueError")
               ELSE IF d > DaysIn(m, y) THEN Raise("ValueError")
               ELSE Return(strftime(y, m, d))

\* check_dates.  The hyphen branch has no return for a string of 10 or more
\* characters: the function then ends, and gives None.
check_dates(date_value) ==
  IF "/" \in Range(date_value)
  THEN LET last_value == Last(Split(date_value, "/"))
           first_value == Head(Split(date_value, "/"))
       IN  IF Len(last_value) = 4 THEN strptime(date_value, "mdY", "/")
           ELSE IF Len(last_value) = 2
                THEN (IF Len(first_value) # 4
                      THEN strptime(date_value, "mdy", "/")
                      ELSE strptime(date_value, "Ymd", "/"))
                ELSE Raise("DataValidationError")
  ELSE IF "-" \in Range(date_value)
       THEN (IF Len(date_value) < 10
             THEN strptime(date_value, "mdy", "-")
             ELSE ReturnNone)
       ELSE Raise("DataValidationError")


\* ---------------------------------------------------------- event recorder

EventSlots == 1..3

EventUris == <<"/repositories/2/events/1", "/repositories/2/events/2", "/repositories/2/events/3">>

\* The dates the rows of the sweep give their events: one the code
\* reformats, one out of the calendar.
SweepDates ==
  { <<"0", "3", "/", "0", "4", "/", "2", "0", "2", "4">>,
    <<"1", "3", "/", "4", "5", "/", "2", "0", "2", "4">> }

\* One event slot of a row (Event_Type_n, Begin_n) with the API's answer to
\* the POST of its event, should one be sent.  type "" : the slot is empty.
NoEvent == [type |-> "", date |-> <<>>, api_ok |-> TRUE]

SlotInputs == {NoEvent} \cup [type : {"ingestion"}, date : SweepDates, api_ok : {TRUE}]

\* The event columns of a row of the sweep: filled from the first slot on.
SweepSlots ==
  {s \in [EventSlots -> SlotInputs] : \A k \in 2..3 : s[k].type # "" => s[k - 1].type # ""}

\* create_event once check_dates has given d: the event payload; a
\* DataValidationError is logged and None returned, any other exception
\* leaves the function.
new_event_of(d, agent_uri, ao_id, repo_id, event_type) ==
  IF d.tag = "raise"
  THEN (IF d.exc = "DataValidationError" THEN ReturnNone ELSE d)
  ELSE Return([event_type |-> event_type,
               linked_agent |-> [role |-> "authorizer", ref |-> agent_uri],
               linked_record |-> [role |-> "source", ref |-> ArchivalObjectPath(repo_id, ao_id)],
               begin |-> d.val])

create_event(agent_uri, ao_id, repo_id, event_type, date_value) ==
  new_event_of(check_dates(date_value), agent_uri, ao_id, repo_id, event_type)

\* event_helper once create_event has given new_event: the URI of the posted
\* event; None when there is no event to post or the API rejects it.
\* posted: the POSTs it made.
event_json_of(new_event, slot, k) ==
  IF new_event.tag = "raise"
  THEN [tag |-> "raise", exc |-> new_event.exc, uri |-> None, posted |-> <<>>]
  ELSE IF new_event.tag = "None"
  THEN [tag |-> "return", exc |-> "", uri |-> None, posted |-> <<>>]
  ELSE [tag |-> "return", exc |-> "",
        uri |-> IF slot.api_ok THEN EventUris[k] ELSE None,
        posted |-> <<[op |-> "post_event", slot |-> k, ok |-> slot.api_ok,
                      payload |-> new_event.val]>>]

event_helper(agent_uri, record_uri, repo_id, slot, k) ==
  event_json_of(create_event(agent_uri, record_uri, repo_id, slot.type, slot.date), slot, k)

\* One of the three if statements of post_events, once event_helper has
\* given h: the slot's key in event_uris.
slot_done(so_far, h, k) ==
  IF h.tag = "raise"
  THEN [tag |-> "raise", exc |-> h.exc, event_uris |-> so_far.event_uris,
        posted |-> so_far.posted \o h.posted]
  ELSE [tag |-> "return", exc |-> "", event_uris |-> so_far.event_uris @@ (k :> h.uri),
        posted |-> so_far.posted \o h.posted]

post_slot(so_far, slot, k, agent_uri, repo_id, record_uri) ==
  IF so_far.tag = "raise" \/ slot.type \in {"", None} THEN so_far
  ELSE slot_done(so_far, event_helper(agent_uri, record_uri, repo_id, slot, k), k)

\* post_events: slot by slot; event_uris has a key for every slot whose type
\* is present, with the event's URI or None.
post_events(slots, agent_uri, repo_id, record_uri) ==
  post_slot(
    post_slot(
      post_slot([tag |-> "return", exc |-> "", event_uris |-> <<>>, posted |-> <<>>],
                slots[1], 1, agent_uri, repo_id, record_uri),
      slots[2], 2, agent_uri, repo_id, record_uri),
    slots[3], 3, agent_uri, repo_id, record_uri)

\* ----------------------------------------------------------- record builder

\* The payloads carry the fields the sweep's properties read: the record's
\* own URI (none for a new record), its component ID and its instances.
\* A row's Component Unique ID is the pair of its file and its row number.

\* An update that would put the row's container in the place of the record's
\* instances (what C8's property must tell from the real one).
update_replacing_instances(fetched, top_container, component_id, ao_id, repo_id) ==
  IF ~fetched.ok THEN ReturnNone
  ELSE Return([record_json |-> [bound |-> TRUE,
                                uri |-> ArchivalObjectPath(repo_id, <<ao_id>>),
                                component_id |-> component_id,
                                instances |-> IF top_container \notin {"", None}
                                              THEN <<create_instance(top_container)>>
                                              ELSE fetched.instances],
               endpoint |-> ArchivalObjectPath(repo_id, <<ao_id>>)])

\* update_archival_object: fetched is the API's answer to the GET of the
\* record.  An ArchivesSpaceError of the GET is logged, and None returned.
update_archival_object(fetched, top_container, component_id, ao_id, repo_id) ==
  IF ~fetched.ok THEN ReturnNone
  ELSE LET current_container_uris == get_uris(fetched.instances)
           instances ==
             IF top_container \notin {"", None} /\ top_container \notin Range(current_container_uris)
             THEN Append(fetched.instances, create_instance(top_container))
             ELSE fetched.instances
       IN  Return([record_json |-> [bound |-> TRUE,
                                    uri |-> ArchivalObjectPath(repo_id, <<ao_id>>),
                                    component_id |-> component_id,
                                    instances |-> instances],
                   endpoint |-> ArchivalObjectPath(repo_id, <<ao_id>>)])

\* create_archival_object
create_archival_object(top_container, component_id, repo_id, parent_id) ==
  Return([record_json |-> [bound |-> TRUE,
                           uri |-> <<>>,
                           component_id |-> component_id,
                           instances |-> IF top_container \notin {"", None}
                                         THEN <<create_instance(top_container)>>
                                         ELSE <<>>],
          endpoint |-> ArchivalObjectsPath(repo_id)])

\* ------------------------------------------------------------ file sorting

\* file_results is a defaultdict(list): a key exists from its first use on,
\* and items() gives the keys in that order.
append_result(file_results, key, input_csv_file) ==
  [file_results EXCEPT ![key] = Append(@, input_csv_file),
                       !.keys = IF key \in Range(@) THEN @ ELSE Append(@, key)]

\* The (key, file) pairs in the order move_files goes through them.
RECURSIVE moves_of(_, _)
moves_of(file_results, keys) ==
  IF keys = <<>> THEN <<>>
  ELSE [i \in 1..Len(file_results[Head(keys)]) |-> <<Head(keys), file_results[Head(keys)][i]>>]
       \o moves_of(file_results, Tail(keys))

\* move_files_helper's shutil.move, one file after the other: a file that is
\* no longer in the input folder cannot be moved (FileNotFoundError), and
\* the exception ends move_files.  The drive path is the folder
\* aspace_spreadsheets_all_repos, which the destination is computed from.
RECURSIVE move_loop(_, _)
move_loop(moves, location) ==
  IF moves = <<>> THEN [location |-> location, exc |-> ""]
  ELSE IF location[Head(moves)[2]] # "input"
       THEN [location |-> location, exc |-> "FileNotFoundError"]
       ELSE move_loop(Tail(moves), [location EXCEPT ![Head(moves)[2]] = Head(moves)[1]])

move_files(file_results, location) ==
  move_loop(moves_of(file_results, file_results.keys), location)


\* ------------------------------------------------------------------- state

\* The spreadsheets of the drive, by name.
FileNames == {"box_create.csv", "box_update.csv", "box.csv"}

\* word in input_file.lower()
Contains(input_file, word) ==
  \/ input_file = "box_create.csv" /\ word = "create"
  \/ input_file = "box_update.csv" /\ word = "update"

\* A set_action_type that takes every other name for a create file (what C5's
\* property must tell from the real one).
set_action_type_lenient(input_file) ==
  IF Contains(input_file, "update") THEN Return("update_archival_object")
  ELSE Return("create_archival_object")

\* set_action_type
set_action_type(input_file) ==
  IF Contains(input_file, "create") THEN Return("create_archival_object")
  ELSE IF Contains(input_file, "update") THEN Return("update_archival_object")
  ELSE Raise("FileNameError")

\* get_action: the FileNameError is logged, and None returned.
get_action(input_file) ==
  LET r == set_action_type(input_file)
  IN  IF r.tag = "raise" THEN None ELSE r.val

\* Repository codes of first rows, and the API's repository list.
RepoCodes == {"MSSA", "XXXX"}

repo_dict == ("MSSA" :> RepoId)

\* config.get('username') and the values of config.get('event_authorizer')
Username == "dass"

Authorizers == {"", "Archivist"}

VARIABLES
  pc,                 \* main's position
  file_total,         \* the number of files in file_listing
  sesh,               \* the session of the login (unbound: none)
  event_authorizer,   \* config.get('event_authorizer')
  fileIdx,            \* the place in file_listing of the current file (0: none yet)
  input_csv_file,     \* its name
  action,             \* the function get_action chose, or None
  repo_identifier,
  agent_uri,
  previous_container,
  container_list,     \* [tag: unbound | None | list, list]
  rowIdx,             \* the place in the file of row (0: none read yet)
  row,                \* the row being processed
  record_json,        \* main's local: the payload last built (bound FALSE: none yet)
  endpoint,           \* main's local: where it goes (<<>>: unbound)
  file_results,       \* [keys, errors, complete]: files by their place in the listing
  results,            \* main's flag for the notification
  output,             \* per file, the rows written to its output file: their number
                      \* in the input, and their New_Component_URI
  created,            \* the records the API has created in the run
  location,           \* per file, the folder it is in: input, complete, errors
  notified,           \* the success flags send_it was called with
  exc,                \* the exception that reached main's except clause
  uncaught,           \* the exception that left main
  calls,              \* what the last step asked of the API and the file system
  nameErrors,         \* the files get_action logged a FileNameError for
  fileNet,            \* a network call was made since the current file was taken up
  seen,               \* the Top Container column of the last row read, and whether
                      \* the row before it had the same
  read,               \* the rows read in the run
  probe               \* the argument and the result of a function applied on its own

\* What the sweep never changes.
cfgVars == <<file_total, event_authorizer, probe>>

NoSession == "unbound"

fileVars == <<fileIdx, input_csv_file, action, repo_identifier, agent_uri>>

contVars == <<previous_container, container_list>>

rowVars == <<rowIdx, row, seen, read>>

payloadVars == <<record_json, endpoint>>

resVars == <<file_results, results>>

outVars == <<output, created, location, notified>>

excVars == <<exc, uncaught>>

histVars == <<nameErrors, fileNet>>

vars == <<pc, sesh, cfgVars, fileVars, contVars, rowVars, payloadVars, resVars, outVars, excVars,
          histVars, calls>>

Files == 1..MaxFiles

Ops(cs) == {cs[i].op : i \in DOMAIN cs}

NoExc == [name |-> "", at |-> ""]

NoRecord == [bound |-> FALSE, uri |-> <<>>, component_id |-> <<0, 0>>, instances |-> <<>>]

\* The row variable.  Between two rows Python keeps the last row bound; its
\* fields are not read again, and are blanked here.
RowOf(bound, record_id, top) ==
  [bound |-> bound, record_id |-> record_id, indicator |-> top, top_container |-> top,
   New_Component_URI |-> <<>>, event_uris |-> <<>>]

NoSeen == [last |-> "-", same |-> FALSE]

NoProbe == [fn |-> "", arg |-> <<>>, res |-> <<>>, done |-> FALSE]

\* main's locals before the sweep.
LocalsBlank ==
  /\ input_csv_file = ""
  /\ action = None
  /\ repo_identifier = None
  /\ agent_uri = None
  /\ previous_container = ""
  /\ container_list = [tag |-> "unbound", list |-> <<>>]
  /\ rowIdx = 0
  /\ row = RowOf(FALSE, "", "")
  /\ record_json = NoRecord
  /\ endpoint = <<>>
  /\ seen = NoSeen
  /\ read = 0
  /\ fileNet = FALSE

\* The try body is left: nothing reads the locals of the sweep from here on,
\* and the state no longer tells them apart.
LocalsGone ==
  /\ input_csv_file' = ""
  /\ action' = None
  /\ repo_identifier' = None
  /\ agent_uri' = None
  /\ previous_container' = ""
  /\ container_list' = [tag |-> "unbound", list |-> <<>>]
  /\ rowIdx' = 0
  /\ row' = RowOf(FALSE, "", "")
  /\ record_json' = NoRecord
  /\ endpoint' = <<>>
  /\ seen' = NoSeen
  /\ read' = 0
  /\ fileNet' = FALSE

Init ==
  /\ pc = "get_session"
  /\ file_total \in 0..MaxFiles
  /\ sesh = NoSession
  /\ event_authorizer \in Authorizers
  /\ fileIdx = 0
  /\ LocalsBlank
  /\ file_results = [keys |-> <<>>, errors |-> <<>>, complete |-> <<>>]
  /\ results = FALSE
  /\ output = [f \in Files |-> <<>>]
  /\ created = 0
  /\ location = [f \in Files |-> "input"]
  /\ notified = <<>>
  /\ exc = NoExc
  /\ uncaught = ""
  /\ calls = <<>>
  /\ nameErrors = {}
  /\ probe = NoProbe

\* ------------------------------------------------------------------ actions

\* An exception leaves main's try body while file number idx is the current
\* one.  Lines 586-589: the except clause logs it and prints row, which is
\* unbound when no row was read in the run: a NameError, which leaves main
\* once the finally clause has run.
ToExceptAt(name, at, idx) ==
  /\ pc' = "finally"
  /\ exc' = [name |-> name, at |-> at]
  /\ uncaught' = IF row.bound THEN uncaught ELSE "NameError"
  /\ fileIdx' = idx
  /\ LocalsGone
  /\ UNCHANGED <<sesh, cfgVars, resVars, outVars, nameErrors>>

ToExcept(name, at) == ToExceptAt(name, at, fileIdx)

\* line 518: get_session.  A LoginError is logged and None returned, which
\* main cannot unpack into api_url and sesh (TypeError).
GetSession ==
  /\ pc = "get_session"
  /\ calls' = <<[op |-> "login"]>>
  /\ \E ok \in BOOLEAN :
       IF ok
       THEN /\ pc' = "next_file"
            /\ sesh' = "session"
            /\ UNCHANGED <<cfgVars, fileVars, contVars, rowVars, payloadVars, resVars, outVars,
                           excVars, histVars>>
       ELSE ToExcept("TypeError", "get_session")

\* lines 519-524: the next file of the listing, get_row_data and get_action.
\* get_row_data reads the first data row (a file without one is an
\* IndexError) and counts the rows, for the progress bar only: the loop over
\* the rows ends when the reader has no more.  No call to the API is made
\* here.
TakeFile ==
  /\ pc = "next_file"
  /\ fileIdx < file_total
  /\ calls' = <<>>
  /\ \E name \in FileNames, has_first_row \in {FALSE} \cup {read < MaxRows} :
       IF ~has_first_row
       THEN ToExceptAt("IndexError", "get_row_data", fileIdx + 1)
       ELSE /\ fileIdx' = fileIdx + 1
            /\ input_csv_file' = name
            /\ rowIdx' = 0
            /\ fileNet' = FALSE
            /\ seen' = NoSeen
            /\ action' = get_action(name)
            /\ nameErrors' = IF set_action_type(name).tag = "raise"
                             THEN nameErrors \cup {fileIdx + 1}
                             ELSE nameErrors
            /\ pc' = "get_repo"
            /\ UNCHANGED <<sesh, cfgVars, repo_identifier, agent_uri, contVars, row, read,
                           payloadVars, resVars, outVars, excVars>>

\* lines 583-585: the listing is exhausted.
SweepDone ==
  /\ pc = "next_file"
  /\ fileIdx = file_total
  /\ results' = TRUE
  /\ pc' = "finally"
  /\ calls' = <<>>
  /\ LocalsGone
  /\ UNCHANGED <<sesh, cfgVars, fileIdx, file_results, outVars, excVars, nameErrors>>

\* get_repo: set_repository's RecordNotFoundError is logged and None
\* returned.  get_repositories' own except clause logs repo_list, which is
\* unbound when the GET of the list failed: an UnboundLocalError, which
\* get_repo does not catch.
get_repo(code, list_ok) ==
  IF ~list_ok THEN Raise("UnboundLocalError")
  ELSE IF code \in DOMAIN repo_dict THEN Return(repo_dict[code])
  ELSE ReturnNone

\* lines 528-529: the repository of the file, by the code in its first row.
GetRepo ==
  /\ pc = "get_repo"
  /\ calls' = <<[op |-> "get_repositories"]>>
  /\ \E code \in RepoCodes, list_ok \in BOOLEAN :
       LET r == get_repo(code, list_ok)
       IN  IF r.tag = "raise"
           THEN ToExcept(r.exc, "get_repo")
           ELSE /\ repo_identifier' = IF r.tag = "None" THEN None ELSE r.val
                /\ fileNet' = TRUE
                /\ pc' = "get_agent"
                /\ UNCHANGED <<sesh, cfgVars, fileIdx, input_csv_file, action, agent_uri,
                               contVars, rowVars, payloadVars, resVars, outVars, excVars,
                               nameErrors>>

\* The agent search's total_hits (has_hits FALSE: the answer has none, and
\* get gives None), and whether the current-user lookup gives an agent.
AgentAnswers == [has_hits : BOOLEAN, total_hits : 0..2, user_ok : BOOLEAN]

\* get_agent around set_agent: a RecordNotFoundError (no hit, several hits)
\* is logged and None returned; comparing a missing total_hits with 1 is a
\* TypeError, a current user without agent a KeyError.
get_agent(agent_authorizer, username, answer) ==
  IF agent_authorizer \notin {"", None} /\ agent_authorizer # username
  THEN IF ~answer.has_hits THEN Raise("TypeError")
       ELSE IF answer.total_hits = 1 THEN Return(AgentUri)
       ELSE ReturnNone
  ELSE IF answer.user_ok THEN Return(UserAgentUri) ELSE Raise("KeyError")

\* lines 530-534
GetAgent ==
  /\ pc = "get_agent"
  /\ calls' = <<[op |-> "get_agent"]>>
  /\ \E answer \in AgentAnswers :
       LET r == get_agent(event_authorizer, Username, answer)
       IN  IF r.tag = "raise"
           THEN ToExcept(r.exc, "get_agent")
           ELSE /\ agent_uri' = IF r.tag = "None" THEN None ELSE r.val
                /\ pc' = "first_container"
                /\ UNCHANGED <<sesh, cfgVars, fileIdx, input_csv_file, action,
                               repo_identifier, contVars, rowVars, payloadVars, resVars,
                               outVars, excVars, nameErrors, fileNet>>

\* lines 535-545: first_row[8], the Top Container column of the first row,
\* and the container list for it; the input and the output file are opened.
FirstContainer ==
  /\ pc = "first_container"
  /\ \E first_container \in RowIndicators :
       IF first_container # ""
       THEN \E resp \in ContainerResponses :
              LET r == get_containers(resp)
              IN  /\ resp.rec.ok => Served(repo_identifier)
                  /\ calls' = <<[op |-> "get_containers"]>>
                  /\ IF r.tag = "raise"
                     THEN ToExcept(r.exc, "get_containers")
                     ELSE /\ previous_container' = first_container
                          /\ container_list' =
                               [tag |-> IF r.tag = "None" THEN "None" ELSE "list", list |-> r.val]
                          /\ pc' = "next_row"
                          /\ UNCHANGED <<sesh, cfgVars, fileVars, rowVars, payloadVars, resVars,
                                         outVars, excVars, histVars>>
       ELSE /\ previous_container' = first_container
            /\ calls' = <<>>
            /\ pc' = "next_row"
            /\ UNCHANGED <<sesh, cfgVars, fileVars, container_list, rowVars, payloadVars, resVars,
                           outVars, excVars, histVars>>

\* A loop that takes every row for one with a parent record (what C13's
\* property must tell from the real one).
has_record_id_always(record_id) == TRUE

\* line 549: whether the row's Parent Record gave an identifier.
has_record_id(record_id) == record_id \notin {"", None}

\* lines 546-549 and 577-581: the next row of the file.  The first row is the
\* one get_row_data read, with previous_container in its Top Container
\* column; a row whose parent record gives no identifier is logged and
\* skipped.
NextRow ==
  /\ pc = "next_row"
  /\ read < MaxRows
  /\ rowIdx' = rowIdx + 1
  /\ read' = read + 1
  /\ calls' = <<>>
  /\ \E record_id \in RecordIds \cup {""}, top \in RowIndicators :
       /\ rowIdx = 0 => top = previous_container
       /\ row' = RowOf(TRUE, record_id, top)
       /\ seen' = [last |-> top, same |-> (top = seen.last)]
       /\ pc' = IF has_record_id(record_id) THEN "resolve_container" ELSE "next_row"
  /\ UNCHANGED <<sesh, cfgVars, fileIdx, input_csv_file, action, repo_identifier,
                 agent_uri, contVars, payloadVars, resVars, outVars, excVars, histVars>>

\* line 552: whether the container list is looked up again for the row.
lookup_again(top_container, previous) == top_container # previous

\* lines 551-555: the row's container.  previous_container is the first
\* row's indicator all through the file: nothing assigns it in the loop.
ResolveContainer ==
  /\ pc = "resolve_container"
  /\ IF row.top_container # ""
     THEN IF lookup_again(row.top_container, previous_container)
          THEN \E resp \in ContainerResponses :
                 LET r == get_containers(resp)
                     list == [tag |-> IF r.tag = "None" THEN "None" ELSE "list", list |-> r.val]
                 IN  /\ resp.rec.ok => Served(repo_identifier)
                     /\ calls' = <<[op |-> "get_containers"]>>
                     /\ IF r.tag = "raise"
                        THEN ToExcept(r.exc, "get_containers")
                        ELSE /\ container_list' = list
                             /\ row' = [row EXCEPT !.top_container =
                                          get_matched_containers(list, row.top_container)]
                             /\ pc' = "build_payload"
                             /\ UNCHANGED <<sesh, cfgVars, fileVars, previous_container, rowIdx, seen,
                                            read, payloadVars, resVars, outVars, excVars,
                                            histVars>>
          ELSE /\ row' = [row EXCEPT !.top_container =
                            get_matched_containers(container_list, row.top_container)]
               /\ calls' = <<>>
               /\ pc' = "build_payload"
               /\ UNCHANGED <<sesh, cfgVars, fileVars, contVars, rowIdx, seen, read, payloadVars,
                              resVars, outVars, excVars, histVars>>
     ELSE /\ pc' = "build_payload"
          /\ calls' = <<>>
          /\ UNCHANGED <<sesh, cfgVars, fileVars, contVars, rowVars, payloadVars, resVars, outVars,
                         excVars, histVars>>

\* The API's answer to the GET of the record to update: an error, or the
\* record, which has a digital object, a container besides, or no instance.
FetchAnswers == RecordAnswers \cup {[ok |-> TRUE, instances |-> <<>>]}

\* lines 215-217: create_backups writes the record it is given to the file
\* named from the record's URI.
create_backups(uri, record) ==
  [op |-> "create_backups", uri |-> uri, instances |-> record.instances]

\* An update that fetches the record and writes no backup of it (what C11's
\* property must tell from the real one).
update_steps_no_backup(fetched, ao_id, repo_id) == <<[op |-> "get_record"]>>

\* lines 423-424: what update_archival_object asks of the API and the file
\* system before it changes the record: the GET, and the backup of the
\* record the GET answered with.  A failed GET raises before the backup.
update_steps(fetched, ao_id, repo_id) ==
  <<[op |-> "get_record"]>>
    \o (IF fetched.ok
        THEN <<create_backups(ArchivalObjectPath(repo_id, <<ao_id>>), fetched)>>
        ELSE <<>>)

\* lines 558-561: the payload and the endpoint, by the file's action.  With
\* no action (None) neither branch runs, and record_json and endpoint stay
\* what they were.  update_archival_object's None cannot be unpacked
\* (TypeError).
BuildPayload ==
  /\ pc = "build_payload"
  /\ IF action = "update_archival_object"
     THEN \E fetched \in FetchAnswers :
            LET r == update_archival_object(fetched, row.top_container, <<fileIdx, rowIdx>>,
                                            row.record_id, repo_identifier)
            IN  /\ fetched.ok => Served(repo_identifier)
                /\ calls' = update_steps(fetched, row.record_id, repo_identifier)
                /\ IF r.tag = "None"
                   THEN ToExcept("TypeError", "update_archival_object")
                   ELSE /\ record_json' = r.val.record_json
                        /\ endpoint' = r.val.endpoint
                        /\ fileNet' = TRUE
                        /\ pc' = "post_record"
                        /\ UNCHANGED <<sesh, cfgVars, fileVars, contVars, rowVars, resVars, outVars,
                                       excVars, nameErrors>>
     ELSE IF action = "create_archival_object"
     THEN LET r == create_archival_object(row.top_container, <<fileIdx, rowIdx>>,
                                          repo_identifier, row.record_id)
          IN  /\ record_json' = r.val.record_json
              /\ endpoint' = r.val.endpoint
              /\ pc' = "post_record"
              /\ calls' = <<>>
              /\ UNCHANGED <<sesh, cfgVars, fileVars, contVars, rowVars, resVars, outVars, excVars,
                             histVars>>
     ELSE /\ pc' = "post_record"
          /\ calls' = <<>>
          /\ UNCHANGED <<sesh, cfgVars, fileVars, contVars, rowVars, payloadVars, resVars, outVars,
                         excVars, histVars>>

\* The URI the API answers a successful POST of a record with: the record's
\* own for an update, a new one under the endpoint for a create.
posted_uri(record, to, new_id) == IF record.uri # <<>> THEN record.uri ELSE to \o <<new_id>>

\* Line 573 without the break: the loop would go on with the next row (what
\* C2's property must tell from the real one).
post_failed_no_break(results_so_far, file) ==
  [file_results |-> append_result(results_so_far, "errors", file), pc |-> "next_row"]

\* line 573, and the break of line 576
post_failed(results_so_far, file) ==
  [file_results |-> append_result(results_so_far, "errors", file), pc |-> "file_end"]

\* lines 562-564 and 568-576: the POST of the record.  An ArchivesSpaceError
\* (or a requests exception) is logged, the file is put on the errors list,
\* and the loop over its rows is left.  Unbound record_json and endpoint (no
\* action, and no payload built before) are an UnboundLocalError, which the
\* except clause of line 568 does not catch.
PostRecord ==
  /\ pc = "post_record"
  /\ IF endpoint = <<>>
     THEN /\ ToExcept("UnboundLocalError", "post_record")
          /\ calls' = <<>>
     ELSE \E ok \in BOOLEAN :
            /\ ok => Served(endpoint[3])
            /\ calls' = <<[op |-> "post_record", ok |-> ok, endpoint |-> endpoint,
                           record_json |-> record_json]>>
            /\ fileNet' = TRUE
            /\ IF ok
               THEN /\ row' = [row EXCEPT !.New_Component_URI =
                                 posted_uri(record_json, endpoint, NewIds[created + 1])]
                    /\ created' = IF record_json.uri = <<>> THEN created + 1 ELSE created
                    /\ pc' = "post_events"
                    /\ UNCHANGED file_results
               ELSE /\ file_results' = post_failed(file_results, fileIdx).file_results
                    /\ pc' = post_failed(file_results, fileIdx).pc
                    /\ UNCHANGED <<row, created>>
            /\ UNCHANGED <<sesh, cfgVars, fileVars, contVars, rowIdx, seen, read, payloadVars, results,
                           output, location, notified, excVars, nameErrors>>

\* lines 565-566: the events of the row.  An exception post_events does not
\* catch ends the sweep; the events posted before it stay posted.
PostEvents ==
  /\ pc = "post_events"
  /\ \E slots \in SweepSlots :
       LET r == post_events(slots, agent_uri, repo_identifier, row.New_Component_URI)
       IN  /\ \A i \in DOMAIN r.posted : r.posted[i].ok => Served(repo_identifier)
           /\ calls' = r.posted
           /\ IF r.tag = "raise"
              THEN ToExcept(r.exc, "post_events")
              ELSE /\ row' = [row EXCEPT !.event_uris = r.event_uris]
                   /\ pc' = "write_row"
                   /\ UNCHANGED <<sesh, cfgVars, fileVars, contVars, rowIdx, seen, read, payloadVars,
                                  resVars, outVars, excVars, histVars>>

\* A writer that leaves the New_Component_URI column empty (what C15's
\* property must tell from the real one).
written_row_without_uri(row_number, row_dict) == [row |-> row_number, New_Component_URI |-> <<>>]

\* line 567: what writerow puts in the output file for the row: the row's
\* place in the input file, and its New_Component_URI column.
written_row(row_number, row_dict) ==
  [row |-> row_number, New_Component_URI |-> row_dict.New_Component_URI]

\* line 567: the row goes to the output file.
WriteRow ==
  /\ pc = "write_row"
  /\ output' = [output EXCEPT ![fileIdx] = Append(@, written_row(rowIdx, row))]
  /\ row' = RowOf(TRUE, "", "")
  /\ calls' = <<[op |-> "writerow"]>>
  /\ pc' = "next_row"
  /\ UNCHANGED <<sesh, cfgVars, fileVars, contVars, rowIdx, seen, read, payloadVars, resVars,
                 created, location, notified, excVars, histVars>>

\* line 582: the loop over the rows is over, by its end or by the break; the
\* file goes on the complete list, and the loop over the files goes on.  The
\* locals that the next pass assigns before it reads them are blanked; the
\* payload, the endpoint and the binding of row are what a next pass can
\* find.
FileEnd ==
  /\ pc = "file_end" \/ (pc = "next_row" /\ rowIdx >= 1)
  /\ file_results' = append_result(file_results, "complete", fileIdx)
  /\ pc' = "next_file"
  /\ calls' = <<>>
  /\ input_csv_file' = ""
  /\ action' = None
  /\ repo_identifier' = None
  /\ agent_uri' = None
  /\ previous_container' = ""
  /\ container_list' = [tag |-> "unbound", list |-> <<>>]
  /\ rowIdx' = 0
  /\ row' = RowOf(row.bound, "", "")
  /\ seen' = NoSeen
  /\ fileNet' = FALSE
  /\ UNCHANGED <<sesh, cfgVars, fileIdx, read, payloadVars, results, outVars, excVars, nameErrors>>

\* lines 590-592: the finally clause, move_files and then send_it.  An
\* exception of move_files leaves the clause, and main, before send_it.
Finally ==
  /\ pc = "finally"
  /\ LET m == move_files(file_results, location)
     IN  /\ location' = m.location
         /\ IF m.exc # ""
            THEN /\ uncaught' = m.exc
                 /\ calls' = <<[op |-> "move_files"]>>
                 /\ UNCHANGED notified
            ELSE /\ notified' = Append(notified, results)
                 /\ calls' = <<[op |-> "move_files"], [op |-> "send_it"]>>
                 /\ UNCHANGED uncaught
  /\ pc' = "exit"
  /\ UNCHANGED <<sesh, cfgVars, fileVars, contVars, rowVars, payloadVars, resVars, output, created,
                 exc, histVars>>

Sweep ==
  \/ GetSession
  \/ TakeFile
  \/ SweepDone
  \/ GetRepo
  \/ GetAgent
  \/ FirstContainer
  \/ NextRow
  \/ ResolveContainer
  \/ BuildPayload
  \/ PostRecord
  \/ PostEvents
  \/ WriteRow
  \/ FileEnd
  \/ Finally

Next == Sweep

Spec == Init /\ [][Next]_vars


\* ------------------------------------------- functions applied on their own

\* The sweep's variables where no sweep is run.
NoSweep ==
  /\ sesh = NoSession
  /\ file_total = 0
  /\ event_authorizer = ""
  /\ fileIdx = 0
  /\ LocalsBlank
  /\ file_results = [keys |-> <<>>, errors |-> <<>>, complete |-> <<>>]
  /\ results = FALSE
  /\ output = [f \in Files |-> <<>>]
  /\ created = 0
  /\ location = [f \in Files |-> "input"]
  /\ notified = <<>>
  /\ exc = NoExc
  /\ uncaught = ""
  /\ calls = <<>>
  /\ nameErrors = {}

sweepVars == <<sesh, file_total, event_authorizer, fileVars, contVars, rowVars, payloadVars, resVars, outVars,
               excVars, histVars, calls>>

\* Date strings: three fields around a separator, two fields, and strings
\* with no separator.
DateFirsts == {<<"3">>, <<"0", "3">>, <<"1", "3">>, <<"2", "0", "2", "4">>}

DateMids == {<<"4">>, <<"0", "4">>, <<"3", "0">>, <<"4", "5">>}

DateLasts == {<<"4">>, <<"2", "4">>, <<"6", "9">>, <<"2", "0", "2", "4">>}

DateSeps == {"/", "-"}

DateInputs ==
  {a \o <<sep>> \o b \o <<sep>> \o c : a \in DateFirsts, b \in DateMids, c \in DateLasts,
                                     sep \in DateSeps}
  \cup {a \o <<sep>> \o c : a \in DateFirsts, c \in DateLasts, sep \in DateSeps}
  \cup {<<>>, <<"2", "0", "2", "4", "0", "3", "0", "4">>,
        <<"0", "2", "/", "3", "0", "/", "2", "0", "2", "4">>,
        <<"0", "2", "/", "2", "9", "/", "2", "0", "2", "4">>,
        <<"0", "3", "/", "0", "4", "-", "2", "4">>}

InitDates ==
  /\ pc = "check_dates"
  /\ probe \in [fn : {"check_dates"}, arg : DateInputs, res : {<<>>}, done : {FALSE}]
  /\ NoSweep

\* check_dates(date_value) is called.
CallCheckDates ==
  /\ pc = "check_dates"
  /\ ~probe.done
  /\ probe' = [probe EXCEPT !.res = check_dates(probe.arg), !.done = TRUE]
  /\ pc' = pc
  /\ UNCHANGED sweepVars

NextDates == CallCheckDates

SpecDates == InitDates /\ [][NextDates]_vars

\* Records to update: up to MaxInstances instances, digital objects and links to the
\* two top containers, and the row's Top Container once resolved.
UpdateInstances ==
  {DigitalObjectInstance} \cup {create_instance(c) : c \in TopContainers}

UpdateArguments ==
  [fetched : [ok : {TRUE}, instances : SeqsUpTo(UpdateInstances, MaxInstances)]
               \cup {[ok |-> FALSE, instances |-> <<>>]},
   top_container : TopContainers \cup {"", None}]

InitUpdate ==
  /\ pc = "update_archival_object"
  /\ probe \in [fn : {"update_archival_object"}, arg : UpdateArguments, res : {<<>>},
                done : {FALSE}]
  /\ NoSweep

\* update_archival_object is called for a row of an update file.
CallUpdate ==
  /\ pc = "update_archival_object"
  /\ ~probe.done
  /\ probe' = [probe EXCEPT
                 !.res = update_archival_object(probe.arg.fetched, probe.arg.top_container,
                                                <<1, 1>>, "7", RepoId),
                 !.done = TRUE]
  /\ pc' = pc
  /\ UNCHANGED sweepVars

NextUpdate == CallUpdate

SpecUpdate == InitUpdate /\ [][NextUpdate]_vars


\* --------------------------------------------------------------- properties

InErrors(f) == f \in Range(file_results.errors)

InComplete(f) == f \in Range(file_results.complete)

\* C1: when the POST of a record of a file fails, the file is on the errors
\* list only, not on the complete list, and once the files are sorted it is
\* in the errors folder.
C1_ErrorsOnly ==
  \A f \in Files :
    InErrors(f) => /\ ~InComplete(f)
                   /\ pc = "exit" => location[f] = "errors"

\* C2: when the POST of a record of a file fails, no row of that file is
\* processed any more, and the sweep goes on to the next file: while the
\* file on the errors list is the current one, main is at the end of the
\* file or at the head of the loop over the files, and the sweep is over only
\* if the file is the last of the listing.
C2_FileAbandoned ==
  (fileIdx \in Files /\ InErrors(fileIdx)) =>
     \/ pc \in {"file_end", "next_file"}
     \/ pc \in {"finally", "exit"} /\ fileIdx = file_total

\* The file after one whose POST failed is being processed.
C2_Witness ==
  /\ pc = "resolve_container"
  /\ fileIdx = 2
  /\ InErrors(1)
  /\ output[1] # <<>>

\* C3: whatever the event slots of a row, a slot that fails is left out and
\* the row is written: post_events is followed by the write of the row.
C3_SlotFailureKeepsRow == [][pc = "post_events" => pc' = "write_row"]_vars

\* C4: a row whose container indicator matches no entry of the container list
\* gets no record: where the container list is resolved and the POST of a
\* row's record has succeeded, the row names no container or its container is
\* one of the list.
C4_NoRecordWithoutContainer ==
  (pc = "post_events" /\ row.indicator # "" /\ container_list.tag = "list") =>
     row.top_container \in TopContainers

\* C5: when the FileNameError of a file has just been logged, no network call
\* has been made: there is no session, and no call for the file.
C5_ErrorBeforeAnyCall ==
  (pc = "get_repo" /\ fileIdx \in nameErrors) => (sesh = NoSession /\ ~fileNet)

\* C5, amended: a file whose name has neither word has its FileNameError
\* logged as soon as it is the current file, before any network call for it
\* (the login has been made before).
C5_ErrorBeforeFileCalls ==
  /\ (input_csv_file # "" /\ ~Contains(input_csv_file, "create")
        /\ ~Contains(input_csv_file, "update")) => (fileIdx \in nameErrors /\ action = None)
  /\ pc = "get_repo" => ~fileNet

\* A network call for the file, after its FileNameError.
C5_Witness ==
  /\ pc = "get_agent"
  /\ input_csv_file = "box.csv"
  /\ fileIdx \in nameErrors
  /\ fileNet

\* C6: when the repository or the agent of a file is not resolved, no record
\* is created or updated afterwards: where the POST of a record has
\* succeeded, both are resolved.
C6_ResolutionAbortsRun ==
  pc = "post_events" => (repo_identifier # None /\ agent_uri # None)

\* C7: the container list is looked up for a row only when the row's
\* indicator differs from the one of the row before it.
C7_LookupOnlyOnChange ==
  (pc = "build_payload" /\ "get_containers" \in Ops(calls)) => ~seen.same

\* The container references of a record's instances, read off the instances.
ContainerRefs(instances) ==
  {instances[i].ref : i \in {j \in DOMAIN instances : instances[j] # DigitalObjectInstance}}

\* C8: the instances of update_archival_object's payload are the fetched
\* record's, followed by one instance for the row's container when it is not
\* among the record's container references, and by nothing otherwise.
C8_UpdateKeepsInstances ==
  (probe.fn = "update_archival_object" /\ probe.done /\ probe.arg.fetched.ok) =>
     LET old == probe.arg.fetched.instances
         top == probe.arg.top_container
     IN  /\ probe.res.tag = "return"
         /\ probe.res.val.record_json.instances =
              IF top \notin {"", None} /\ top \notin ContainerRefs(old)
              THEN old \o <<create_instance(top)>>
              ELSE old

\* A record with one container instance, and a row with another container:
\* two instances.
C8_Witness ==
  /\ probe.fn = "update_archival_object"
  /\ probe.done
  /\ probe.arg.fetched.instances = <<create_instance("/repositories/2/top_containers/1")>>
  /\ probe.arg.top_container = "/repositories/2/top_containers/2"
  /\ Len(probe.res.val.record_json.instances) = 2

\* C9: every run ends with the files sorted and one notification sent.
C9_SortThenNotify ==
  pc = "exit" => (Len(notified) = 1 /\ uncaught # "FileNotFoundError")

\* YYYY-MM-DD
IsoDate(v) ==
  /\ Len(v) = 10
  /\ \A i \in 1..10 : IF i \in {5, 8} THEN v[i] = "-" ELSE IsDigit(v[i])

\* The fields of a date string are numbers of these lengths.
FieldLengths(date_value, sep, lengths) ==
  LET fields == Split(date_value, sep)
  IN  /\ Len(fields) = 3
      /\ \A i \in 1..3 : Len(fields[i]) = lengths[i] /\ AllDigits(fields[i])

InCalendar(y, m, d) == m \in 1..12 /\ d \in 1..DaysIn(m, y)

\* MM/DD/YYYY, MM/DD/YY, YYYY/MM/DD and MM-DD-YY, of a day of the calendar
SupportedShape(date_value) ==
  LET by_slash == Split(date_value, "/")
      by_hyphen == Split(date_value, "-")
  IN  \/ /\ FieldLengths(date_value, "/", <<2, 2, 4>>)
         /\ InCalendar(NumVal(by_slash[3]), NumVal(by_slash[1]), NumVal(by_slash[2]))
      \/ /\ FieldLengths(date_value, "/", <<2, 2, 2>>)
         /\ InCalendar(2000 + NumVal(by_slash[3]), NumVal(by_slash[1]), NumVal(by_slash[2]))
      \/ /\ FieldLengths(date_value, "/", <<4, 2, 2>>)
         /\ InCalendar(NumVal(by_slash[1]), NumVal(by_slash[2]), NumVal(by_slash[3]))
      \/ /\ FieldLengths(date_value, "-", <<2, 2, 2>>)
         /\ InCalendar(2000 + NumVal(by_hyphen[3]), NumVal(by_hyphen[1]), NumVal(by_hyphen[2]))

\* The other shapes that are named: MM/DD/YYYY with a month or a day out of
\* range, no separator at all, hyphens and 10 characters or more.
OtherShape(date_value) ==
  LET by_slash == Split(date_value, "/")
  IN  \/ /\ FieldLengths(date_value, "/", <<2, 2, 4>>)
         /\ ~InCalendar(NumVal(by_slash[3]), NumVal(by_slash[1]), NumVal(by_slash[2]))
      \/ "/" \notin Range(date_value) /\ "-" \notin Range(date_value)
      \/ "/" \notin Range(date_value) /\ "-" \in Range(date_value) /\ Len(date_value) >= 10

\* C10: check_dates gives YYYY-MM-DD for the supported shapes, and a
\* DataValidationError for the others.
C10_CheckDates ==
  (probe.fn = "check_dates" /\ probe.done) =>
     /\ SupportedShape(probe.arg) => (probe.res.tag = "return" /\ IsoDate(probe.res.val))
     /\ OtherShape(probe.arg) => probe.res = Raise("DataValidationError")

\* C11: in an update file, a record is POSTed only right after a backup of
\* it was written under the URI the POST goes to, and the backup holds the
\* record as the GET answered it: the payload's instances are the backup's,
\* followed by the row's container instance when the backup has no link to it.
C11_BackupBeforePost ==
  [][(pc = "post_record" /\ action = "update_archival_object" /\ "post_record" \in Ops(calls'))
       => \E i \in DOMAIN calls :
            /\ calls[i].op = "create_backups"
            /\ \A j \in DOMAIN calls : calls[j].op = "post_record" => j < i
            /\ calls[i].uri = calls'[1].endpoint
            /\ calls'[1].record_json.instances =
                 IF row.top_container \notin {"", None}
                    /\ row.top_container \notin ContainerRefs(calls[i].instances)
                 THEN calls[i].instances \o <<create_instance(row.top_container)>>
                 ELSE calls[i].instances]_vars

\* An update was POSTed whose payload has the row's container for its only
\* instance: the record as fetched, and as backed up, had none.
C11_Witness ==
  /\ action = "update_archival_object"
  /\ "post_record" \in Ops(calls)
  /\ calls[1].ok
  /\ calls[1].record_json.instances = <<create_instance("/repositories/2/top_containers/1")>>

\* C12: when the GET of the record to update has failed (no backup was
\* written for it), the loop over the files goes on, and the file is on the
\* errors list.
C12_FetchFailureAbortsFile ==
  ("get_record" \in Ops(calls) /\ "create_backups" \notin Ops(calls))
    => (pc \notin {"finally", "exit"} /\ InErrors(fileIdx))

\* C13: a row whose Parent Record gives no identifier is skipped in one
\* step: nothing is asked of the API, no record is created, no row is
\* written, the lists of results stay what they were, and the loop over the
\* rows of the file goes on.
C13_EmptyParentSkipped ==
  [][(pc = "next_row" /\ rowIdx' = rowIdx + 1 /\ row'.record_id = "")
       => /\ pc' = "next_row"
          /\ calls' = <<>>
          /\ fileIdx' = fileIdx
          /\ UNCHANGED <<output, created, file_results, exc, uncaught>>]_vars

\* The only row written for a file is its second one, and the file is not
\* on the errors list: the first row was skipped, and the second processed.
C13_Witness ==
  \E f \in Files :
    /\ Len(output[f]) = 1
    /\ output[f][1].row = 2
    /\ ~InErrors(f)

\* C14: every event posted for a row has the URI that the row's record POST
\* returned as its linked record, with role source, and the file's agent URI
\* as its linked agent, with role authorizer.
C14_EventLinksRecord ==
  pc = "write_row" =>
    \A i \in DOMAIN calls :
      calls[i].op = "post_event" =>
        /\ calls[i].payload.linked_record = [role |-> "source", ref |-> row.New_Component_URI]
        /\ calls[i].payload.linked_agent = [role |-> "authorizer", ref |-> agent_uri]

\* The steps of a row follow one another as in lines 551-567: the payload is
\* built after the container is resolved, the record POSTed after that, the
\* events posted after a successful record POST, the row written after the
\* events.
C15_StepOrder ==
  /\ pc' = "build_payload" => pc = "resolve_container"
  /\ pc' = "post_record" => pc = "build_payload"
  /\ pc' = "post_events" => (pc = "post_record" /\ "post_record" \in Ops(calls') /\ calls'[1].ok)
  /\ pc' = "write_row" => pc = "post_events"
  /\ "post_record" \in Ops(calls') => pc = "post_record"
  /\ "post_event" \in Ops(calls') =>
       (pc = "post_events" /\ "post_record" \in Ops(calls) /\ calls[1].ok)

\* The URI a successful record POST returns is put in the row, and is still
\* there when the row is written; a row is written by the step after the
\* events only, to the end of the current file's output.
C15_RowWritten ==
  /\ ("post_record" \in Ops(calls') /\ calls'[1].ok) =>
       /\ row'.New_Component_URI # <<>>
       /\ row'.New_Component_URI =
            IF calls'[1].record_json.uri # <<>> THEN calls'[1].endpoint
            ELSE calls'[1].endpoint \o <<NewIds[created']>>
  /\ (pc = "post_events" /\ pc' = "write_row") => row'.New_Component_URI = row.New_Component_URI
  /\ output' # output =>
       /\ pc = "write_row"
       /\ output' = [output EXCEPT ![fileIdx] =
                       Append(@, [row |-> rowIdx, New_Component_URI |-> row.New_Component_URI])]

\* The rows written for a file are in the order of the input file, each once
\* at most, each with a URI.
C15_OutputInOrder ==
  \A f \in Files :
    /\ \A i \in DOMAIN output[f] : output[f][i].New_Component_URI # <<>>
    /\ \A i, j \in DOMAIN output[f] : i < j => output[f][i].row < output[f][j].row

\* C15: the steps of a row happen in the order resolve container, build
\* payload, POST record, POST events, write row; events are posted only after
\* the row's record POST succeeded; a row is written once at most, after its
\* record POST succeeded, with the URI that POST returned, and the output
\* rows are in input order.
C15_RowLifecycle ==
  [](C15_OutputInOrder) /\ [][C15_StepOrder /\ C15_RowWritten]_vars

\* Two rows of a file were written, each after its record was created.
C15_Witness ==
  \E f \in Files :
    /\ Len(output[f]) = 2
    /\ output[f][1].New_Component_URI # output[f][2].New_Component_URI
    /\ calls = <<[op |-> "writerow"]>>

\* C16: the payload of every record POST was built from the row being
\* processed (it has the row's Component Unique ID), and the endpoint is the
\* one built for that row: the record's own URI in an update file, the
\* repository's archival objects in a create file.
C16_PayloadOfCurrentRow ==
  \A i \in DOMAIN calls :
    calls[i].op = "post_record" =>
      /\ calls[i].record_json.component_id = <<fileIdx, rowIdx>>
      /\ \/ /\ action = "update_archival_object"
            /\ calls[i].endpoint = ArchivalObjectPath(repo_identifier, <<row.record_id>>)
         \/ /\ action = "create_archival_object"
            /\ calls[i].endpoint = ArchivalObjectsPath(repo_identifier)

\* C17: when the run is over, a notification with success=true was sent
\* only if no exception ended the sweep and no file is on the errors list;
\* and if a file is on the errors list, or an exception ended the sweep, the
\* one notification sent has success=false.
C17_SuccessFlag ==
  pc = "exit" =>
    /\ \A i \in DOMAIN notified :
         notified[i] => (file_results.errors = <<>> /\ exc = NoExc)
    /\ (file_results.errors # <<>> \/ exc # NoExc) => notified = <<FALSE>>

=============================================================================
